---- MODULE Spec2Model ----
(***************************************************************************)
(* Preview access gate of app.py: the in-memory rate limiter               *)
(* (_PREVIEW_FAILS, _rate_limit_check, _rate_limit_hit), the salted code   *)
(* hash (_code_hash), the code submission handler (fejlesztes_alatt) and   *)
(* the page fetch handler (fejlesztes_alatt_page).                         *)
(*                                                                         *)
(* Strings that the code strips or concatenates (the submitted code, the   *)
(* salt) are sequences of one-character strings.  Python's None / a        *)
(* missing dictionary key is a key missing from the DOMAIN of a function;  *)
(* a nullable column is the empty set or a singleton.                      *)
(***************************************************************************)
EXTENDS Integers, Sequences, FiniteSets, TLC

\* ------------------------------------------------------------------ bounds
\* The clock advances in steps of TickLen seconds, up to MaxTime.
TickLen == 300
MaxTime == 900
\* Number of worker threads that can hold a request.
NumThreads == 1

\* ------------------------------------------------------- program constants
MaxTries == 10        \* default max_tries of _rate_limit_check
WindowSec == 600      \* default window_sec of _rate_limit_check
HitWindowSec == 600   \* the literal window of _rate_limit_hit

Threads == 1..NumThreads
Sessions == {"s1"}

\* session.get("preview_page_key") of a session that holds no grant
NoGrant == "<None>"

\* ------------------------------------------------------------ environment
\* os.environ: PREVIEW_CODE_SALT absent, blank, or set (with padding).
Environs ==
    { <<>>,
      [PREVIEW_CODE_SALT |-> <<" ">>],
      [PREVIEW_CODE_SALT |-> <<"k", " ">>] }

\* request.form of a POST: no "code" field, or one of these values.
Forms ==
    { <<>> } \cup
    { [code |-> c] : c \in { <<" ">>, <<"a">>, <<" ", "a">>, <<"b">>,
                             <<"e">>, <<"i">>, <<"x">> } }

\* request.headers (only X-Forwarded-For is read) and request.remote_addr.
XffHeader == "X-Forwarded-For"
HeaderSets == { <<>>, [k \in {XffHeader} |-> ""] }
RemoteAddrs == { "a" }

\* page_key values of GET /fejlesztes-alatt/<page_key>
PageKeys == { "p1", "p2", "nx" }

\* Outcome of the storage calls of one request: none fails, or
\* _engine() / eng.connect() / conn.execute() raises.
Faults == { "none", "engine", "connect", "query" }

\* ---------------------------------------------------------------- helpers
IsSpace(c) == c = " "

RECURSIVE LStrip(_)
LStrip(s) == IF s # <<>> /\ IsSpace(Head(s)) THEN LStrip(Tail(s)) ELSE s

RECURSIVE RStrip(_)
RStrip(s) ==
    IF s # <<>> /\ IsSpace(s[Len(s)])
    THEN RStrip(SubSeq(s, 1, Len(s) - 1))
    ELSE s

\* str.strip()
Strip(s) == RStrip(LStrip(s))

\* (os.environ.get(name) or "").strip()
EnvGet(e, name) == Strip(IF name \in DOMAIN e THEN e[name] ELSE <<>>)

\* (request.form.get("code") or "").strip()
FormCode(form) == Strip(IF "code" \in DOMAIN form THEN form["code"] ELSE <<>>)

\* request.headers.get("X-Forwarded-For", request.remote_addr) or "unknown"
ClientIp(headers, remote) ==
    LET v == IF XffHeader \in DOMAIN headers
             THEN headers[XffHeader]
             ELSE remote
    IN  IF v = "" THEN "unknown" ELSE v

IPs == { ClientIp(h, r) : h \in HeaderSets, r \in RemoteAddrs }

\* hashlib.sha256(raw).hexdigest(): deterministic and collision free
Sha256(raw) == <<"sha256", raw>>

\* f"{code}:{salt}"
SaltedRaw(code, salt) == code \o <<":">> \o salt

\* _code_hash: [ok |-> FALSE] stands for the RuntimeError of a missing salt
CodeHashFallbackSalt(code, e) ==
    LET salt == EnvGet(e, "PREVIEW_CODE_SALT")
    IN  [ok |-> TRUE,
         h  |-> Sha256(SaltedRaw(code, IF salt = <<>> THEN <<"d", "e", "v">> ELSE salt))]

CodeHash(code, e) ==
    LET salt == EnvGet(e, "PREVIEW_CODE_SALT")
    IN  IF salt = <<>>
        THEN [ok |-> FALSE, h |-> <<>>]
        ELSE [ok |-> TRUE, h |-> Sha256(SaltedRaw(code, salt))]

\* ------------------------------------------------------------ rate limiter
\* _PREVIEW_FAILS.get(ip, (0, now))
FailsGet(f, ip, t) == IF ip \in DOMAIN f THEN f[ip] ELSE <<0, t>>

\* _PREVIEW_FAILS[ip] = v
FailsPut(f, ip, v) == [k \in DOMAIN f \cup {ip} |-> IF k = ip THEN v ELSE f[k]]

\* now - first_ts > window_sec  (_rate_limit_check)
CheckElapsed(t, first_ts) == t - first_ts > WindowSec

\* now - first_ts > 600  (_rate_limit_hit)
HitElapsedOnBoundary(t, first_ts) == t - first_ts >= HitWindowSec

HitElapsed(t, first_ts) == t - first_ts > HitWindowSec

\* return value of _rate_limit_check, from the entry it read
CheckAllowsOffByOne(count, first_ts, t) ==
    CheckElapsed(t, first_ts) \/ count <= MaxTries

CheckAllows(count, first_ts, t) ==
    CheckElapsed(t, first_ts) \/ count < MaxTries

\* the entry _rate_limit_hit stores, from the entry it read
HitEntry(count, first_ts, t) ==
    IF HitElapsed(t, first_ts) THEN <<1, t>> ELSE <<count + 1, first_ts>>

\* --------------------------------------------------------------- database
\* The salt the operator seeded the codes with.
SeedEnv == [PREVIEW_CODE_SALT |-> <<"k">>]

\* preview_codes: code_hash, page_key, is_active, expires_at (NULL is {}).
PreviewCodes ==
    { [code_hash |-> CodeHash(<<"a">>, SeedEnv).h, page_key |-> "p1",
       is_active |-> TRUE, expires_at |-> {}],
      [code_hash |-> CodeHash(<<"b">>, SeedEnv).h, page_key |-> "p2",
       is_active |-> TRUE, expires_at |-> {}],
      [code_hash |-> CodeHash(<<"e">>, SeedEnv).h, page_key |-> "p2",
       is_active |-> TRUE, expires_at |-> {300}],
      [code_hash |-> CodeHash(<<"i">>, SeedEnv).h, page_key |-> "p1",
       is_active |-> FALSE, expires_at |-> {}] }

\* preview_pages as seeded: page_key -> template_name, is_active.
SeededPages ==
    [k \in {"p1", "p2"} |->
        [template_name |-> IF k = "p1" THEN "dev/p1.html" ELSE "dev/p2.html",
         is_active |-> TRUE]]

\* SELECT ... FROM preview_codes c JOIN preview_pages p ON p.page_key = c.page_key
\* WHERE c.code_hash = :h AND c.is_active = TRUE AND p.is_active = TRUE
FindCodeEntryIgnoresPage(h, pg) ==
    { c \in PreviewCodes :
        /\ c.code_hash = h
        /\ c.is_active
        /\ c.page_key \in DOMAIN pg }

FindCodeEntry(h, pg) ==
    { c \in PreviewCodes :
        /\ c.code_hash = h
        /\ c.is_active
        /\ c.page_key \in DOMAIN pg
        /\ pg[c.page_key].is_active }

\* SELECT template_name FROM preview_pages WHERE page_key = :k AND is_active = TRUE
FindPage(k, pg) ==
    IF k \in DOMAIN pg /\ pg[k].is_active THEN { pg[k].template_name } ELSE {}

\* if expires_at: ... datetime.now(timezone.utc) > expires_dt
CodeExpiredNever(row, t) == FALSE

CodeExpired(row, t) == row.expires_at # {} /\ \E x \in row.expires_at : t > x

\* not (not allowed or allowed != page_key)
SessionAllowsAnyGrant(allowed, page_key) == allowed # NoGrant

SessionAllows(allowed, page_key) == ~(allowed = NoGrant \/ allowed # page_key)

\* -------------------------------------------------------------- responses
\* _response_err(message, status)
ResponseErr(message, status) ==
    [status |-> status, message |-> message, target |-> ""]

\* redirect(url_for("fejlesztes_alatt_page", page_key=...), code=302)
Redirect(page_key) == [status |-> 302, message |-> "", target |-> page_key]

\* render_template(template_name)
Rendered(template_name) ==
    [status |-> 200, message |-> "", target |-> template_name]

\* abort(status)
Abort(status) == [status |-> status, message |-> "", target |-> ""]

\* the inline form of GET /fejlesztes-alatt
FormPage == [status |-> 200, message |-> "", target |-> "<form>"]

MsgThrottled == "Tul sok probalkozas. Probald kesobb."
MsgRequired  == "A kod megadasa kotelezo."
MsgBadCode   == "Hibas kod."
MsgExpired   == "A kod lejart."
MsgPreview   == "Preview hiba"

\* except Exception as e: return _response_err(f"Preview hiba: {e}", 503)
SubmitOnExceptionAs500 == ResponseErr(MsgPreview, 500)

SubmitOnException == ResponseErr(MsgPreview, 503)

\* the response of the "if not row" branch
NotFoundResponse == ResponseErr(MsgBadCode, 401)

\* the response of the expired branch
ExpiredResponse == ResponseErr(MsgExpired, 401)

\* ------------------------------------------------------------------ state
VARIABLES
    now,        \* the wall clock read by time.time() and datetime.now()
    env,        \* os.environ of the process
    fails,      \* _PREVIEW_FAILS: ip -> <<count, first_ts>>
    session,    \* session["preview_page_key"] of each client session
    pages,      \* table preview_pages
    pc,         \* position of each worker thread in its handler
    req,        \* the request a thread is handling
    loc,        \* handler locals: the limiter entry read, the pending reply
    resp,       \* the response a thread has produced
    recorded,   \* history: _rate_limit_hit calls per ip in its current window
    hist        \* history of the request a thread is handling

vars == <<now, env, fails, session, pages, pc, req, loc, resp, recorded, hist>>

NoResponse == [status |-> 0, message |-> "", target |-> ""]

IdleReq == [kind |-> "none", sid |-> "s1", ip |-> "a", code |-> <<>>, key |-> ""]

IdleLoc == [count |-> 0, first_ts |-> 0, tnow |-> 0, reply |-> NoResponse]

\* sat: the limiter was saturated when the request arrived; hashed, queried:
\* _code_hash returned, conn.execute was reached; fault: the storage call that
\* raised; grant0: the session's grant at arrival; entry: the ip's limiter entry
\* after _rate_limit_check; cause: the branch that decided the request;
\* tq: the clock when the query ran; codeOn: an active preview_codes row had
\* the hash then; pageOn: the page of that row (or the page fetched) was
\* active then.
IdleHist ==
    [sat |-> FALSE, hashed |-> FALSE, queried |-> FALSE, fault |-> "none",
     grant0 |-> NoGrant, entry |-> {}, cause |-> "", tq |-> 0,
     codeOn |-> FALSE, pageOn |-> FALSE]

Entry(f, ip) == IF ip \in DOMAIN f THEN { f[ip] } ELSE {}

Init ==
    /\ now = 0
    /\ env \in Environs
    /\ fails = <<>>
    /\ session = [s \in Sessions |-> NoGrant]
    /\ pages = SeededPages
    /\ pc = [t \in Threads |-> "idle"]
    /\ req = [t \in Threads |-> IdleReq]
    /\ loc = [t \in Threads |-> IdleLoc]
    /\ resp = [t \in Threads |-> NoResponse]
    /\ recorded = [i \in IPs |-> 0]
    /\ hist = [t \in Threads |-> IdleHist]

\* A thread finishes its request with response r.
Finish(t, r) ==
    /\ pc' = [pc EXCEPT ![t] = "done"]
    /\ resp' = [resp EXCEPT ![t] = r]

\* ------------------------------------------------- POST /fejlesztes-alatt
\* The request arrives; _rate_limit_check reads the clock and the entry.
Post(t, sid, headers, remote, form) ==
    LET ip == ClientIp(headers, remote)
        e  == FailsGet(fails, ip, now)
    IN  /\ pc[t] = "idle"
        /\ req' = [req EXCEPT ![t] =
                      [kind |-> "post", sid |-> sid, ip |-> ip,
                       code |-> FormCode(form), key |-> ""]]
        /\ loc' = [loc EXCEPT ![t] =
                      [count |-> e[1], first_ts |-> e[2], tnow |-> now,
                       reply |-> NoResponse]]
        /\ hist' = [hist EXCEPT ![t] =
                      [IdleHist EXCEPT
                          !.sat = /\ recorded[ip] >= MaxTries
                                  /\ ip \in DOMAIN fails
                                  /\ now - fails[ip][2] <= WindowSec,
                          !.grant0 = session[sid]]]
        /\ pc' = [pc EXCEPT ![t] = "check"]
        /\ UNCHANGED <<now, env, fails, session, pages, resp, recorded>>

\* The rest of _rate_limit_check, then the empty-code test of the handler.
RateLimitCheck(t) ==
    LET ip == req[t].ip
        l  == loc[t]
        f2 == IF CheckElapsed(l.tnow, l.first_ts)
              THEN FailsPut(fails, ip, <<0, l.tnow>>)
              ELSE fails
    IN  /\ pc[t] = "check"
        /\ fails' = f2
        /\ recorded' = IF CheckElapsed(l.tnow, l.first_ts)
                       THEN [recorded EXCEPT ![ip] = 0]
                       ELSE recorded
        /\ hist' = [hist EXCEPT ![t].entry = Entry(f2, ip)]
        /\ IF ~CheckAllows(l.count, l.first_ts, l.tnow)
           THEN /\ Finish(t, ResponseErr(MsgThrottled, 429))
                /\ UNCHANGED loc
           ELSE IF req[t].code = <<>>
           THEN /\ pc' = [pc EXCEPT ![t] = "hit_read"]
                /\ loc' = [loc EXCEPT ![t].reply = ResponseErr(MsgRequired, 400)]
                /\ UNCHANGED resp
           ELSE /\ pc' = [pc EXCEPT ![t] = "lookup"]
                /\ UNCHANGED <<loc, resp>>
        /\ UNCHANGED <<now, env, session, pages, req>>

\* session["preview_page_key"] = row["page_key"]; return redirect(...)
GrantResetsCounter(t, row) ==
    /\ session' = [session EXCEPT ![req[t].sid] = row.page_key]
    /\ Finish(t, Redirect(row.page_key))
    /\ fails' = [k \in DOMAIN fails \ {req[t].ip} |-> fails[k]]
    /\ UNCHANGED <<loc, recorded>>

Grant(t, row) ==
    /\ session' = [session EXCEPT ![req[t].sid] = row.page_key]
    /\ Finish(t, Redirect(row.page_key))
    /\ UNCHANGED <<loc, fails, recorded>>

\* A rejection that first calls _rate_limit_hit: the reply waits for it.
Reject(t, r) ==
    /\ pc' = [pc EXCEPT ![t] = "hit_read"]
    /\ loc' = [loc EXCEPT ![t].reply = r]
    /\ UNCHANGED <<resp, session, fails, recorded>>

\* The try block: _code_hash, _engine, connect, the query, the expiry test
\* and the grant; any exception ends in the except branch.
Lookup(t, fault) ==
    LET ch   == CodeHash(req[t].code, env)
        rows == FindCodeEntry(ch.h, pages)
        con  == \E c \in PreviewCodes : c.code_hash = ch.h /\ c.is_active
        pon  == \E c \in PreviewCodes :
                    /\ c.code_hash = ch.h
                    /\ c.is_active
                    /\ c.page_key \in DOMAIN pages
                    /\ pages[c.page_key].is_active
    IN  /\ pc[t] = "lookup"
        /\ IF ~ch.ok
           THEN /\ fault = "none"
                /\ hist' = [hist EXCEPT ![t].cause = "hash"]
                /\ Finish(t, SubmitOnException)
                /\ UNCHANGED <<loc, session, fails, recorded>>
           ELSE IF fault # "none"
           THEN /\ hist' = [hist EXCEPT ![t].hashed = TRUE,
                                        ![t].queried = (fault = "query"),
                                        ![t].fault = fault,
                                        ![t].cause = "storage"]
                /\ Finish(t, SubmitOnException)
                /\ UNCHANGED <<loc, session, fails, recorded>>
           ELSE IF rows = {}
           THEN /\ hist' = [hist EXCEPT ![t].hashed = TRUE,
                                        ![t].queried = TRUE,
                                        ![t].tq = now,
                                        ![t].codeOn = con,
                                        ![t].pageOn = pon,
                                        ![t].cause = "notfound"]
                /\ Reject(t, NotFoundResponse)
           ELSE \E row \in rows :
                IF CodeExpired(row, now)
                THEN /\ hist' = [hist EXCEPT ![t].hashed = TRUE,
                                             ![t].queried = TRUE,
                                             ![t].tq = now,
                                        ![t].codeOn = con,
                                        ![t].pageOn = pon,
                                             ![t].cause = "expired"]
                     /\ Reject(t, ExpiredResponse)
                ELSE /\ hist' = [hist EXCEPT ![t].hashed = TRUE,
                                             ![t].queried = TRUE,
                                             ![t].tq = now,
                                        ![t].codeOn = con,
                                        ![t].pageOn = pon,
                                             ![t].cause = "granted"]
                     /\ Grant(t, row)
        /\ UNCHANGED <<now, env, pages, req>>

\* _rate_limit_hit: read the clock and the entry ...
HitRead(t) ==
    LET e == FailsGet(fails, req[t].ip, now)
    IN  /\ pc[t] = "hit_read"
        /\ loc' = [loc EXCEPT ![t].count = e[1], ![t].first_ts = e[2],
                              ![t].tnow = now]
        /\ pc' = [pc EXCEPT ![t] = "hit_write"]
        /\ UNCHANGED <<now, env, fails, session, pages, req, resp, recorded, hist>>

\* ... and store the new entry; the handler then returns its error reply.
HitWriteRereads(t) ==
    LET ip == req[t].ip
        l  == loc[t]
        e  == FailsGet(fails, ip, l.tnow)
    IN  /\ pc[t] = "hit_write"
        /\ fails' = FailsPut(fails, ip, HitEntry(e[1], e[2], l.tnow))
        /\ recorded' = [recorded EXCEPT ![ip] =
                           IF HitElapsed(l.tnow, e[2]) THEN 1 ELSE @ + 1]
        /\ Finish(t, l.reply)
        /\ UNCHANGED <<now, env, session, pages, req, loc, hist>>

HitWrite(t) ==
    LET ip == req[t].ip
        l  == loc[t]
    IN  /\ pc[t] = "hit_write"
        /\ fails' = FailsPut(fails, ip, HitEntry(l.count, l.first_ts, l.tnow))
        /\ recorded' = [recorded EXCEPT ![ip] =
                           IF HitElapsed(l.tnow, l.first_ts) THEN 1 ELSE @ + 1]
        /\ Finish(t, l.reply)
        /\ UNCHANGED <<now, env, session, pages, req, loc, hist>>

\* -------------------------------------------------- GET /fejlesztes-alatt
GetForm(t, sid, headers, remote) ==
    /\ pc[t] = "idle"
    /\ req' = [req EXCEPT ![t] =
                  [IdleReq EXCEPT !.kind = "form", !.sid = sid,
                                  !.ip = ClientIp(headers, remote)]]
    /\ hist' = [hist EXCEPT ![t] = [IdleHist EXCEPT !.grant0 = session[sid]]]
    /\ Finish(t, FormPage)
    /\ UNCHANGED <<now, env, fails, session, pages, loc, recorded>>

\* --------------------------------------- GET /fejlesztes-alatt/<page_key>
\* The body of the try block: abort(404) raises an HTTPException, which is
\* an Exception, so the except branch of the same try catches it.
FetchInTry(rows) ==
    IF rows = {}
    THEN Abort(503)
    ELSE Rendered(CHOOSE x \in rows : TRUE)

\* except Exception: return abort(503)
FetchOnException == Abort(503)

FetchPage(t, sid, page_key, fault) ==
    LET allowed == session[sid]
    IN  /\ pc[t] = "idle"
        /\ req' = [req EXCEPT ![t] =
                      [IdleReq EXCEPT !.kind = "page", !.sid = sid,
                                      !.key = page_key]]
        /\ IF ~SessionAllows(allowed, page_key)
           THEN /\ fault = "none"
                /\ hist' = [hist EXCEPT ![t] =
                               [IdleHist EXCEPT !.grant0 = allowed,
                                                !.cause = "forbidden"]]
                /\ Finish(t, Abort(403))
           ELSE IF fault # "none"
           THEN /\ hist' = [hist EXCEPT ![t] =
                               [IdleHist EXCEPT !.grant0 = allowed,
                                                !.queried = (fault = "query"),
                                                !.fault = fault,
                                                !.cause = "storage"]]
                /\ Finish(t, FetchOnException)
           ELSE /\ hist' = [hist EXCEPT ![t] =
                               [IdleHist EXCEPT
                                   !.grant0 = allowed,
                                   !.queried = TRUE,
                                   !.tq = now,
                                   !.pageOn = /\ page_key \in DOMAIN pages
                                              /\ pages[page_key].is_active,
                                   !.cause = "fetched"]]
                /\ Finish(t, FetchInTry(FindPage(page_key, pages)))
        /\ UNCHANGED <<now, env, fails, session, pages, loc, recorded>>

\* The response has been sent; the thread is free again.
Return(t) ==
    /\ pc[t] = "done"
    /\ pc' = [pc EXCEPT ![t] = "idle"]
    /\ req' = [req EXCEPT ![t] = IdleReq]
    /\ loc' = [loc EXCEPT ![t] = IdleLoc]
    /\ resp' = [resp EXCEPT ![t] = NoResponse]
    /\ hist' = [hist EXCEPT ![t] = IdleHist]
    /\ UNCHANGED <<now, env, fails, session, pages, recorded>>

\* ------------------------------------------------------------ environment
Tick ==
    /\ now + TickLen <= MaxTime
    /\ now' = now + TickLen
    /\ UNCHANGED <<env, fails, session, pages, pc, req, loc, resp, recorded, hist>>

\* The operator flips preview_pages.is_active of a page.
DeactivatePage(k) ==
    /\ k \in DOMAIN pages
    /\ pages[k].is_active
    /\ pages' = [pages EXCEPT ![k].is_active = FALSE]
    /\ UNCHANGED <<now, env, fails, session, pc, req, loc, resp, recorded, hist>>

\* Reseeding a page key reactivates it.
ReseedPage(k) ==
    /\ k \in DOMAIN pages
    /\ ~pages[k].is_active
    /\ pages' = [pages EXCEPT ![k].is_active = TRUE]
    /\ UNCHANGED <<now, env, fails, session, pc, req, loc, resp, recorded, hist>>

\* ---------------------------------------------------------- specification
\* Requests are handled one after the other: a thread moves only while no
\* other thread holds a request.
Alone(t) == \A u \in Threads \ {t} : pc[u] = "idle"

\* The gate as one client address sees it.
Next ==
    \/ \E t \in Threads, sid \in Sessions, r \in RemoteAddrs, form \in Forms :
          Alone(t) /\ Post(t, sid, <<>>, r, form)
    \/ \E t \in Threads : Alone(t) /\ RateLimitCheck(t)
    \/ \E t \in Threads, fault \in Faults : Alone(t) /\ Lookup(t, fault)
    \/ \E t \in Threads : Alone(t) /\ HitRead(t)
    \/ \E t \in Threads : Alone(t) /\ HitWrite(t)
    \/ \E t \in Threads, sid \in Sessions, r \in RemoteAddrs :
          Alone(t) /\ GetForm(t, sid, <<>>, r)
    \/ \E t \in Threads, sid \in Sessions, k \in PageKeys, fault \in Faults :
          Alone(t) /\ FetchPage(t, sid, k, fault)
    \/ \E t \in Threads : Alone(t) /\ Return(t)
    \/ Tick
    \/ \E k \in DOMAIN SeededPages : DeactivatePage(k)
    \/ \E k \in DOMAIN SeededPages : ReseedPage(k)

Spec == Init /\ [][Next]_vars

\* The rate limiter with two client addresses (one request carries an empty
\* X-Forwarded-For header), under a narrower choice of codes and pages.
LimiterForms == { <<>>, [code |-> <<"a">>], [code |-> <<"x">>] }

NextLimiter ==
    \/ \E t \in Threads, sid \in Sessions, h \in HeaderSets, r \in RemoteAddrs,
          form \in LimiterForms : Alone(t) /\ Post(t, sid, h, r, form)
    \/ \E t \in Threads : Alone(t) /\ RateLimitCheck(t)
    \/ \E t \in Threads, fault \in {"none", "query"} : Alone(t) /\ Lookup(t, fault)
    \/ \E t \in Threads : Alone(t) /\ HitRead(t)
    \/ \E t \in Threads : Alone(t) /\ HitWrite(t)
    \/ \E t \in Threads, sid \in Sessions, h \in HeaderSets, r \in RemoteAddrs :
          Alone(t) /\ GetForm(t, sid, h, r)
    \/ \E t \in Threads, sid \in Sessions :
          Alone(t) /\ FetchPage(t, sid, "p1", "none")
    \/ \E t \in Threads : Alone(t) /\ Return(t)
    \/ Tick
    \/ DeactivatePage("p1")
    \/ ReseedPage("p1")

InitLimiter == Init /\ env = [PREVIEW_CODE_SALT |-> <<"k", " ">>]

SpecLimiter == InitLimiter /\ [][NextLimiter]_vars

\* Two worker threads serve requests of one client address at the same time:
\* their handler steps interleave freely.  Every submission carries a
\* non-empty code that no row matches, so each one that passes the limiter
\* queries the Code Directory and then calls _rate_limit_hit.  The clock stays
\* inside the first rate window, and no submission is taken once
\* MaxRecorded failures have been recorded.
MaxRecorded == 11

ConcThreads == {1, 2}

ConcForms == { [code |-> <<"x">>] }

InitConc ==
    /\ now = 0
    /\ env = [PREVIEW_CODE_SALT |-> <<"k", " ">>]
    /\ fails = <<>>
    /\ session = [s \in Sessions |-> NoGrant]
    /\ pages = SeededPages
    /\ pc = [t \in ConcThreads |-> "idle"]
    /\ req = [t \in ConcThreads |-> IdleReq]
    /\ loc = [t \in ConcThreads |-> IdleLoc]
    /\ resp = [t \in ConcThreads |-> NoResponse]
    /\ recorded = [i \in IPs |-> 0]
    /\ hist = [t \in ConcThreads |-> IdleHist]

\* The clock moves, but not past the end of the first window.
TickInWindow == now + TickLen <= WindowSec /\ Tick

NextConc ==
    \/ \E t \in ConcThreads, sid \in Sessions, r \in RemoteAddrs,
          form \in ConcForms :
          /\ recorded[ClientIp(<<>>, r)] < MaxRecorded
          /\ Post(t, sid, <<>>, r, form)
    \/ \E t \in ConcThreads : RateLimitCheck(t)
    \/ \E t \in ConcThreads : Lookup(t, "none")
    \/ \E t \in ConcThreads : HitRead(t)
    \/ \E t \in ConcThreads : HitWrite(t)
    \/ \E t \in ConcThreads : Return(t)
    \/ TickInWindow

SpecConc == InitConc /\ [][NextConc]_vars

\* ----------------------------------------------------------------- claims
Salt == EnvGet(env, "PREVIEW_CODE_SALT")

IsPost(t) == req[t].kind = "post"

IsFetch(t) == req[t].kind = "page"

\* The storage calls of the request were all made and none raised.
QueryRan(t) == hist[t].queried /\ hist[t].fault = "none"

\* The session of the request holds what it held when the request arrived.
GrantUntouched(t) == session[req[t].sid] = hist[t].grant0

\* The request added exactly one failure to its address: the entry left by
\* _rate_limit_check with its count raised by one, or, if that entry's window
\* was over at the time of the hit (or there was no entry), a window that
\* starts at the hit with count 1.
OneFailureRecorded(t) ==
    LET ip == req[t].ip
    IN  /\ ip \in DOMAIN fails
        /\ \/ /\ \A e \in hist[t].entry : loc[t].tnow - e[2] > 600
              /\ fails[ip] = <<1, loc[t].tnow>>
           \/ \E e \in hist[t].entry :
                 /\ loc[t].tnow - e[2] <= 600
                 /\ fails[ip] = <<e[1] + 1, e[2]>>

\* C1: a POST that arrives while its address has MaxTries recorded failures
\* in a window that is not over is answered 429 straight from the rate-limit
\* check: the code is never hashed and the Code Directory never queried.
C1_SaturatedIsThrottled ==
    \A t \in Threads :
        (IsPost(t) /\ hist[t].sat) =>
            /\ pc[t] \in {"check", "done"}
            /\ ~hist[t].hashed
            /\ ~hist[t].queried
            /\ pc[t] = "done" => resp[t] = ResponseErr(MsgThrottled, 429)

C1_Witness ==
    \E t \in Threads :
        /\ IsPost(t) /\ hist[t].sat /\ pc[t] = "done"
        /\ recorded[req[t].ip] = MaxTries
        /\ now - fails[req[t].ip][2] = WindowSec
        /\ resp[t].status = 429

\* C2: a page fetch renders a template only for the page key the session
\* holds a grant for; with another grant, or none, the answer is 403 and it
\* is given before the Page Directory is asked, whatever the page's state.
C2_FetchNeedsMatchingGrant ==
    \A t \in Threads :
        (IsFetch(t) /\ pc[t] = "done") =>
            /\ hist[t].grant0 # req[t].key =>
                  /\ resp[t] = Abort(403)
                  /\ ~hist[t].queried
                  /\ hist[t].fault = "none"
            /\ resp[t].status = 200 => hist[t].grant0 = req[t].key

C2_Witness ==
    \E t \in Threads :
        /\ IsFetch(t) /\ pc[t] = "done"
        /\ hist[t].grant0 = "p1" /\ req[t].key = "p2"
        /\ pages["p2"].is_active
        /\ resp[t].status = 403

\* An active preview_codes row with the hash of the submitted code had an
\* expiry that lay in the past when the query ran.
ExpiredRowMatched(t) ==
    \E c \in PreviewCodes :
        /\ c.code_hash = Sha256(req[t].code \o <<":">> \o Salt)
        /\ c.is_active
        /\ c.expires_at # {}
        /\ \A x \in c.expires_at : x < hist[t].tq

\* C3: a submission that the limiter let through and whose code resolves to
\* an active row with a past expiry is rejected: the session's grant stays
\* what it was, no redirect is sent, and one failure is recorded.
C3_ExpiredCodeRejected ==
    \A t \in Threads :
        (IsPost(t) /\ QueryRan(t) /\ ExpiredRowMatched(t)) =>
            /\ pc[t] \in {"hit_read", "hit_write", "done"}
            /\ GrantUntouched(t)
            /\ pc[t] = "done" =>
                  /\ resp[t].status = 401
                  /\ resp[t].target = ""
                  /\ OneFailureRecorded(t)

C3_Witness ==
    \E t \in Threads :
        /\ IsPost(t) /\ QueryRan(t) /\ ExpiredRowMatched(t)
        /\ hist[t].pageOn
        /\ hist[t].grant0 = "p1"
        /\ pc[t] = "done"

\* C4: a submission whose code has an active row pointing to a page that is
\* inactive when the query runs is rejected as an invalid code, with a
\* failure recorded and the grant untouched; a redirect is sent only when
\* both the code's row and its page were active.
C4_InactivePageHidesCodes ==
    \A t \in Threads :
        (IsPost(t) /\ QueryRan(t)) =>
            /\ (hist[t].codeOn /\ ~hist[t].pageOn) =>
                  /\ pc[t] \in {"hit_read", "hit_write", "done"}
                  /\ GrantUntouched(t)
                  /\ pc[t] = "done" =>
                        /\ resp[t] = ResponseErr(MsgBadCode, 401)
                        /\ OneFailureRecorded(t)
            /\ (pc[t] = "done" /\ resp[t].status = 302) =>
                  hist[t].codeOn /\ hist[t].pageOn

C4_Witness ==
    \E t \in Threads :
        /\ IsPost(t) /\ QueryRan(t) /\ pc[t] = "done"
        /\ req[t].code = <<"a">>
        /\ hist[t].codeOn /\ ~hist[t].pageOn
        /\ hist[t].tq = 0
        /\ resp[t].status = 401

\* C5: every rejection of a submission whose query ran is the response given
\* for an unknown code, so an expired code cannot be told from an unknown one.
C5_SameRejection ==
    \A t \in Threads :
        (IsPost(t) /\ QueryRan(t) /\ pc[t] = "done" /\ resp[t].status # 302) =>
            resp[t] = ResponseErr(MsgBadCode, 401)

\* The hash could not be computed, or a storage call of the request raised.
LookupFailed(t) ==
    \/ hist[t].fault # "none"
    \/ IsPost(t) /\ req[t].code # <<>> /\ Salt = <<>> /\ resp[t].status # 429

\* C6: a request whose hashing or storage call failed ends with 503, the
\* session's grant is what it was, and nothing is rendered or redirected to.
C6_FailureIs503 ==
    \A t \in Threads :
        (pc[t] = "done" /\ LookupFailed(t)) =>
            /\ resp[t].status = 503
            /\ resp[t].target = ""
            /\ GrantUntouched(t)

C6_Witness ==
    \E t \in Threads :
        /\ pc[t] = "done" /\ IsPost(t)
        /\ hist[t].fault = "query"
        /\ hist[t].grant0 = "p2"
        /\ req[t].code = <<"a">>
        /\ resp[t].status = 503

C8_GrantKeepsCounter ==
    \A t \in Threads :
        (IsPost(t) /\ pc[t] = "done" /\ resp[t].status = 302) =>
            /\ Entry(fails, req[t].ip) = hist[t].entry
            /\ \A e \in hist[t].entry : recorded[req[t].ip] = e[1]

C8_Witness ==
    \E t \in Threads :
        /\ IsPost(t) /\ pc[t] = "done" /\ resp[t].status = 302
        /\ req[t].ip \in DOMAIN fails
        /\ fails[req[t].ip][1] = MaxTries - 1

\* C9: a fetch by a session whose grant matches, of a page that is inactive
\* when the query runs, is answered 404.
C9_DeactivatedPageIs404 ==
    \A t \in Threads :
        (IsFetch(t) /\ pc[t] = "done" /\ hist[t].grant0 = req[t].key
            /\ QueryRan(t) /\ ~hist[t].pageOn) =>
            resp[t].status = 404

\* C10: _rate_limit_check of an entry whose window is over stores count 0
\* with the window starting now and lets the request through;
\* _rate_limit_hit of such an entry (or of no entry) stores count 1 with the
\* window starting now, and of any other entry raises the count by one and
\* keeps the window start.  Entries of other addresses are not touched.
C10_Step ==
    \A t \in Threads :
        LET ip == req[t].ip
            tn == loc[t].tnow
        IN  /\ \A other \in IPs \ {ip} :
                  (pc[t] # pc'[t] /\ pc[t] # "idle") =>
                      Entry(fails', other) = Entry(fails, other)
            /\ (pc[t] = "check" /\ pc'[t] # "check") =>
                  IF ip \in DOMAIN fails /\ tn - fails[ip][2] > 600
                  THEN fails'[ip] = <<0, tn>> /\ pc'[t] # "done"
                  ELSE fails' = fails
            /\ (pc[t] = "hit_write" /\ pc'[t] # "hit_write") =>
                  /\ ip \in DOMAIN fails'
                  /\ IF ip \in DOMAIN fails /\ tn - fails[ip][2] <= 600
                     THEN fails'[ip] = <<fails[ip][1] + 1, fails[ip][2]>>
                     ELSE fails'[ip] = <<1, tn>>

C10_WindowReset == [][C10_Step]_vars

C10_Witness ==
    \E t \in Threads :
        /\ IsPost(t) /\ pc[t] = "done"
        /\ \E e \in hist[t].entry : e[1] > 0 /\ loc[t].tnow - e[2] > 600
        /\ fails[req[t].ip] = <<1, loc[t].tnow>>

\* The failure count stored for an address (0 while it has no entry).
StoredCount(f, ip) == IF ip \in DOMAIN f THEN f[ip][1] ELSE 0

\* C11: with handlers interleaving, _rate_limit_hit stores the count it read
\* earlier plus one, whatever the entry has become since: each write loses as
\* many recorded failures as the stored count moved between this thread's
\* read and its write, and the stored count never exceeds the number of
\* failures recorded in the window.
C11_Step ==
    \A t \in ConcThreads :
        (pc[t] = "hit_write" /\ pc'[t] = "done") =>
            LET ip == req[t].ip
                stored == StoredCount(fails, ip)
            IN  /\ fails'[ip][1] = loc[t].count + 1
                /\ recorded'[ip] - fails'[ip][1] =
                      (recorded[ip] - stored) + (stored - loc[t].count)
                /\ recorded'[ip] >= fails'[ip][1]

C11_LostUpdate == [][C11_Step]_vars

\* A submission arrived when MaxTries failures were already recorded in the
\* window, passed the limiter all the same and queried the Code Directory:
\* the stored count is below the recorded failures, of which there are now
\* more than MaxTries, each one a submission that reached the directory.
C11_Witness ==
    \E t \in ConcThreads :
        /\ IsPost(t) /\ pc[t] = "done"
        /\ hist[t].sat /\ hist[t].queried
        /\ req[t].ip \in DOMAIN fails
        /\ now - fails[req[t].ip][2] <= WindowSec
        /\ fails[req[t].ip][1] < recorded[req[t].ip]
        /\ recorded[req[t].ip] > MaxTries

====
